---- MODULE Spec2Model ----
(***************************************************************************)
(* A model of src/src/index.ts: the Markdown component-doc extractor      *)
(* (extractSection, extractFirstTable, splitRowPreservingEscapedPipes,    *)
(* the header-mapped table parsers, the single/multi document dispatch),  *)
(* the persistence of each ComponentDoc (processComponent) and the lookup *)
(* by component name (loadComponentData).                                  *)
(*                                                                         *)
(* Text is modelled as TLA+ strings, handled character by character with  *)
(* Len, SubSeq and \o; a document is a sequence of lines.  The CJK column *)
(* labels of the source cannot be written in a TLA+ string, so each one   *)
(* is written in pinyin (see the Label definitions).                       *)
(***************************************************************************)
EXTENDS Integers, Sequences, FiniteSets, TLC

VARIABLES
    tKind,      \* text functions: which function the input is for
    tLines,     \* text functions: the lines given (a document or a section)
    tLabel,     \* text functions: the heading label given to extractSection
    tRow,       \* text functions: the row given to splitRowPreservingEscapedPipes
    tResult,    \* text functions: <<>> before the call, <<value>> after it
    dDoc,       \* dispatcher: the document's lines
    dComps,     \* dispatcher: <<>> before the call, <<ComponentDoc[]>> after it
    pc,         \* main: "idle", "persist", "nextfile", "done" or "failed"
    mode,       \* main: "stdin", "file" or "dir"
    multi,      \* main: the current document has more than one Props heading
    comps,      \* main: the ComponentDocs of the current document
    handed,     \* main: how many of comps were handed to processComponent
    persisted,  \* main: how many of comps processComponent has returned for
    allComponents, \* main: directory mode's allComponents
    stdout,     \* main: what was written to stdout, <<>> when nothing was
    docsRead,   \* how many documents have been read so far
    files,      \* the component files on disk: path -> ComponentDoc
    indexFile,  \* the index files on disk: path -> [state, components]
    lookupName, \* loadComponentData: the name asked for
    lookupResult \* loadComponentData: <<>> or <<what the call gave>>

textVars == <<tKind, tLines, tLabel, tRow, tResult>>

docVars == <<dDoc, dComps>>

runVars == <<pc, mode, multi, comps, handed, persisted, allComponents, stdout, docsRead>>

storeVars == <<files, indexFile>>

lookupVars == <<lookupName, lookupResult>>

vars == <<textVars, docVars, runVars, storeVars, lookupVars>>

(***************************************************************************)
(* Strings                                                                 *)
(***************************************************************************)
CharAt(s, i) == SubSeq(s, i, i)

DropFirst(s, n) == SubSeq(s, n + 1, Len(s))

Min(S) == CHOOSE x \in S : \A y \in S : x <= y

\* JavaScript's \s and String.prototype.trim, on the whitespace the model's lines hold
IsSpace(c) == c \in {" ", "\t"}

RECURSIVE TrimStart(_)
TrimStart(s) ==
    IF Len(s) > 0 /\ IsSpace(CharAt(s, 1)) THEN TrimStart(DropFirst(s, 1)) ELSE s

RECURSIVE TrimEnd(_)
TrimEnd(s) ==
    IF Len(s) > 0 /\ IsSpace(CharAt(s, Len(s)))
    THEN TrimEnd(SubSeq(s, 1, Len(s) - 1))
    ELSE s

Trim(s) == TrimEnd(TrimStart(s))

UpperChars == "ABCDEFGHIJKLMNOPQRSTUVWXYZ"

LowerChars == "abcdefghijklmnopqrstuvwxyz"

UpperSet == {CharAt(UpperChars, i) : i \in 1..Len(UpperChars)}

LowerSet == {CharAt(LowerChars, i) : i \in 1..Len(LowerChars)}

LowerMap ==
    [c \in UpperSet |->
        CharAt(LowerChars, CHOOSE i \in 1..Len(UpperChars) : CharAt(UpperChars, i) = c)]

UpperMap ==
    [c \in LowerSet |->
        CharAt(UpperChars, CHOOSE i \in 1..Len(LowerChars) : CharAt(LowerChars, i) = c)]

LowerChar(c) == IF c \in UpperSet THEN LowerMap[c] ELSE c

UpperChar(c) == IF c \in LowerSet THEN UpperMap[c] ELSE c

\* String.prototype.toLowerCase on the characters the model's lines hold
RECURSIVE ToLower(_)
ToLower(s) ==
    IF Len(s) = 0 THEN "" ELSE LowerChar(CharAt(s, 1)) \o ToLower(DropFirst(s, 1))

RECURSIVE ToUpper(_)
ToUpper(s) ==
    IF Len(s) = 0 THEN "" ELSE UpperChar(CharAt(s, 1)) \o ToUpper(DropFirst(s, 1))

StartsWith(s, p) == Len(s) >= Len(p) /\ SubSeq(s, 1, Len(p)) = p

EndsWith(s, p) == Len(s) >= Len(p) /\ SubSeq(s, Len(s) - Len(p) + 1, Len(s)) = p

Includes(s, p) == \E i \in 1..(Len(s) - Len(p) + 1) : SubSeq(s, i, i + Len(p) - 1) = p

\* String.prototype.replace(/pat/g, rep) for a literal pattern: leftmost, non-overlapping
RECURSIVE ReplaceAll(_, _, _)
ReplaceAll(s, pat, rep) ==
    IF Len(s) = 0 THEN ""
    ELSE IF StartsWith(s, pat) THEN rep \o ReplaceAll(DropFirst(s, Len(pat)), pat, rep)
    ELSE CharAt(s, 1) \o ReplaceAll(DropFirst(s, 1), pat, rep)

\* String.prototype.split(d) for a one-character delimiter: "".split("|") is [""]
RECURSIVE SplitFrom(_, _, _)
SplitFrom(s, d, cur) ==
    IF Len(s) = 0 THEN <<cur>>
    ELSE IF CharAt(s, 1) = d THEN <<cur>> \o SplitFrom(DropFirst(s, 1), d, "")
    ELSE SplitFrom(DropFirst(s, 1), d, cur \o CharAt(s, 1))

Split(s, d) == SplitFrom(s, d, "")

\* Array.prototype.map
MapSeq(Op(_), seq) == [i \in 1..Len(seq) |-> Op(seq[i])]

\* Array.prototype.filter
RECURSIVE FilterSeq(_, _)
FilterSeq(Test(_), seq) ==
    IF Len(seq) = 0 THEN <<>>
    ELSE (IF Test(seq[1]) THEN <<seq[1]>> ELSE <<>>) \o FilterSeq(Test, Tail(seq))

\* Array.prototype.indexOf, 1-based; 0 where JavaScript gives -1
IndexOf(seq, x) ==
    LET hit == {i \in 1..Len(seq) : seq[i] = x}
    IN  IF hit = {} THEN 0 ELSE Min(hit)

\* cols[idx] || "" : an index outside the array reads undefined
ColumnOr(cols, idx) == IF idx \in 1..Len(cols) THEN cols[idx] ELSE ""

\* an optional value: None is JavaScript's null or undefined
None == <<>>

Some(v) == <<v>>

(***************************************************************************)
(* Section Extractor, Table Locator, Row Tokenizer                         *)
(***************************************************************************)
normalizeLine(line) == TrimEnd(line)

\* the predicate of lines.findIndex in extractSection
SectionHeadingMatches(l, heading) ==
    StartsWith(ToLower(Trim(l)), "### " \o ToLower(heading))

\* the break test of extractSection's loop
SectionStops(line) == StartsWith(Trim(line), "### ")

RECURSIVE FindIndexFrom(_, _, _)
FindIndexFrom(lines, heading, i) ==
    IF i > Len(lines) THEN 0
    ELSE IF SectionHeadingMatches(lines[i], heading) THEN i
    ELSE FindIndexFrom(lines, heading, i + 1)

RECURSIVE SectionLoop(_, _, _)
SectionLoop(lines, i, out) ==
    IF i > Len(lines) THEN out
    ELSE IF SectionStops(lines[i]) THEN out
    ELSE SectionLoop(lines, i + 1, Append(out, lines[i]))

extractSection(lines, heading) ==
    LET startIdx == FindIndexFrom(lines, heading, 1)
    IN  IF startIdx = 0 THEN <<>> ELSE SectionLoop(lines, startIdx + 1, <<>>)

\* /\|\s*-{2,}/.test(line)
SeparatorRegex(line) ==
    \E i \in 1..Len(line) :
        /\ CharAt(line, i) = "|"
        /\ \E j \in i..Len(line) :
            /\ \A m \in (i + 1)..j : IsSpace(CharAt(line, m))
            /\ j + 2 <= Len(line)
            /\ SubSeq(line, j + 1, j + 2) = "--"

\* the candidate test on the trimmed line t
HeaderCandidate(t) ==
    StartsWith(t, "|") \/ (Includes(t, "|") /\ ~StartsWith(t, "###"))

RECURSIVE TableStart(_, _)
TableStart(lines, i) ==
    IF i > Len(lines) THEN 0
    ELSE IF /\ HeaderCandidate(Trim(lines[i]))
            /\ i + 1 <= Len(lines)
            /\ SeparatorRegex(lines[i + 1])
         THEN i
    ELSE TableStart(lines, i + 1)

RECURSIVE TableLoop(_, _, _)
TableLoop(lines, i, table) ==
    IF i > Len(lines) THEN table
    ELSE IF ~Includes(lines[i], "|") THEN table
    ELSE IF Trim(lines[i]) = "" THEN table
    ELSE IF i + 1 <= Len(lines) /\ Trim(lines[i + 1]) = "" THEN Append(table, lines[i])
    ELSE TableLoop(lines, i + 1, Append(table, lines[i]))

extractFirstTable(sectionLines) ==
    LET lines == MapSeq(normalizeLine, sectionLines)
        start == TableStart(lines, 1)
    IN  IF start = 0 THEN <<>> ELSE TableLoop(lines, start, <<>>)

PLACEHOLDER == "__ESCAPED_PIPE__"

StripLeadingPipe(s) == IF StartsWith(s, "|") THEN DropFirst(s, 1) ELSE s

StripTrailingPipe(s) == IF EndsWith(s, "|") THEN SubSeq(s, 1, Len(s) - 1) ELSE s

RestoreCell(p) == ReplaceAll(Trim(p), PLACEHOLDER, "|")

\* as splitRowPreservingEscapedPipes, but split before the escaped pipes are put aside
splitRowSplitFirst(row) ==
    MapSeq(Trim, Split(StripTrailingPipe(StripLeadingPipe(row)), "|"))

splitRowPreservingEscapedPipes(row) ==
    LET replaced == ReplaceAll(row, "\\|", PLACEHOLDER)
    IN  MapSeq(RestoreCell, Split(StripTrailingPipe(StripLeadingPipe(replaced)), "|"))

(***************************************************************************)
(* Header-Mapped Interpreter                                               *)
(***************************************************************************)
\* the column labels of the source, in pinyin
NameLabel == "mingcheng"

TypeLabel == "leixing"

DefaultLabel == "morenzhi"

PropDescLabel == "shuoming"

RequiredLabel == "bichuan"

ParamsLabel == "canshu"

DescLabel == "miaoshu"

ReturnLabel == "fanhuizhi"

\* the methods-section marker text of the source, in pinyin
MethodsMarker == "InstanceFunctions zujianshilifangfa"

IsDataRow(l) == Len(Trim(l)) > 0 /\ Includes(l, "|")

parseMarkdownTable(tableLines) ==
    IF Len(tableLines) < 2 THEN [headers |-> <<>>, rows |-> <<>>]
    ELSE [headers |-> MapSeq(ToLower, splitRowPreservingEscapedPipes(tableLines[1])),
          rows |-> MapSeq(splitRowPreservingEscapedPipes,
                          FilterSeq(IsDataRow, SubSeq(tableLines, 3, Len(tableLines))))]

Cell(headers, cols, label) == Trim(ColumnOr(cols, IndexOf(headers, label)))

PropRow(headers, cols) ==
    LET defaultValueRaw == Cell(headers, cols, DefaultLabel)
        requiredRaw == ToUpper(Cell(headers, cols, RequiredLabel))
    IN  [name |-> Cell(headers, cols, NameLabel),
         type |-> Cell(headers, cols, TypeLabel),
         defaultValue |-> IF defaultValueRaw = "-" \/ defaultValueRaw = ""
                          THEN None ELSE Some(defaultValueRaw),
         description |-> Cell(headers, cols, PropDescLabel),
         required |-> (requiredRaw = "Y" \/ requiredRaw = "YES")]

parsePropsTable(tableLines) ==
    LET t == parseMarkdownTable(tableLines)
    IN  IF Len(t.headers) = 0 THEN <<>>
        ELSE [i \in 1..Len(t.rows) |-> PropRow(t.headers, t.rows[i])]

EventRow(headers, cols) ==
    [name |-> Cell(headers, cols, NameLabel),
     params |-> Cell(headers, cols, ParamsLabel),
     description |-> Cell(headers, cols, DescLabel)]

parseEventsTable(tableLines) ==
    LET t == parseMarkdownTable(tableLines)
    IN  IF Len(t.headers) = 0 THEN <<>>
        ELSE [i \in 1..Len(t.rows) |-> EventRow(t.headers, t.rows[i])]

MethodRow(headers, cols) ==
    [name |-> Cell(headers, cols, NameLabel),
     params |-> Cell(headers, cols, ParamsLabel),
     returnType |-> Cell(headers, cols, ReturnLabel),
     description |-> Cell(headers, cols, DescLabel)]

parseMethodsTable(tableLines) ==
    LET t == parseMarkdownTable(tableLines)
    IN  IF Len(t.headers) = 0 THEN <<>>
        ELSE [i \in 1..Len(t.rows) |-> MethodRow(t.headers, t.rows[i])]

(***************************************************************************)
(* Document Dispatcher                                                     *)
(***************************************************************************)
\* the filter of componentHeadings
IsPropsHeading(l) ==
    /\ StartsWith(ToLower(Trim(l)), "### ")
    /\ Includes(ToLower(Trim(l)), "props")

\* .replace(/^\s*###\s*/i, "")
StripMarker(line) ==
    IF StartsWith(TrimStart(line), "###")
    THEN TrimStart(DropFirst(TrimStart(line), 3))
    ELSE line

\* the start of the leftmost match of /\s+Props.*/i in s, 0 when there is none
PropsSuffixStart(s) ==
    LET hit == {i \in 1..Len(s) :
                   /\ IsSpace(CharAt(s, i))
                   /\ \E j \in i..Len(s) :
                       /\ \A m \in i..j : IsSpace(CharAt(s, m))
                       /\ j + 5 <= Len(s)
                       /\ ToLower(SubSeq(s, j + 1, j + 5)) = "props"}
    IN  IF hit = {} THEN 0 ELSE Min(hit)

\* .replace(/\s+Props.*/i, "")
StripPropsSuffix(s) ==
    IF PropsSuffixStart(s) = 0 THEN s ELSE SubSeq(s, 1, PropsSuffixStart(s) - 1)

deriveComponent(line) == Trim(StripPropsSuffix(StripMarker(line)))

\* as componentDoc, but methods is set whether or not a methods table was found
componentDocAlwaysMethods(lines, component) ==
    [component |-> component,
     props |-> parsePropsTable(extractFirstTable(extractSection(lines, component \o " Props"))),
     events |-> parseEventsTable(extractFirstTable(extractSection(lines, component \o " Events"))),
     methods |-> Some(parseMethodsTable(
                     extractFirstTable(extractSection(lines, component \o MethodsMarker))))]

\* the three sections of one component and the ComponentDocJson built from them
componentDoc(lines, component) ==
    LET propsSection == extractSection(lines, component \o " Props")
        eventsSection == extractSection(lines, component \o " Events")
        methodsSection == extractSection(lines, component \o MethodsMarker)
        propsTable == extractFirstTable(propsSection)
        eventsTable == extractFirstTable(eventsSection)
        methodsTable == extractFirstTable(methodsSection)
    IN  [component |-> component,
         props |-> parsePropsTable(propsTable),
         events |-> parseEventsTable(eventsTable),
         methods |-> IF Len(methodsTable) > 0
                     THEN Some(parseMethodsTable(methodsTable)) ELSE None]

RECURSIVE DedupNames(_, _)
DedupNames(names, seen) ==
    IF Len(names) = 0 THEN <<>>
    ELSE IF names[1] \in seen THEN DedupNames(Tail(names), seen)
    ELSE <<names[1]>> \o DedupNames(Tail(names), seen \cup {names[1]})

\* as parseMultiComponentDoc, but one ComponentDoc per distinct derived name
parseMultiComponentDocDedup(lines) ==
    LET names == DedupNames(MapSeq(deriveComponent,
                                   FilterSeq(IsPropsHeading, MapSeq(Trim, lines))), {})
    IN  [i \in 1..Len(names) |-> componentDoc(lines, names[i])]

parseMultiComponentDoc(lines) ==
    LET componentHeadings == FilterSeq(IsPropsHeading, MapSeq(Trim, lines))
    IN  [i \in 1..Len(componentHeadings) |->
            componentDoc(lines, deriveComponent(componentHeadings[i]))]

\* the single-component branch: the first Props heading, or "Unknown"
singleComponentDoc(lines) ==
    LET found == FilterSeq(IsPropsHeading, lines)
        component == IF Len(found) > 0 THEN deriveComponent(found[1]) ELSE "Unknown"
    IN  componentDoc(lines, component)

IsMultiComponent(lines) == Len(FilterSeq(IsPropsHeading, lines)) > 1

\* the ComponentDocJson[] of one document, before any of it is persisted
documentComponents(lines) ==
    IF IsMultiComponent(lines) THEN parseMultiComponentDoc(lines)
    ELSE <<singleComponentDoc(lines)>>

(***************************************************************************)
(* Persistence (processComponent) and lookup (loadComponentData)           *)
(***************************************************************************)
Digits == "0123456789"

\* the characters [a-zA-Z0-9\-_.] of the slug
SafeChars ==
    UpperSet \cup LowerSet \cup {CharAt(Digits, i) : i \in 1..Len(Digits)} \cup {"-", "_", "."}

RECURSIVE DropWhile(_, _)
DropWhile(s, C) ==
    IF Len(s) > 0 /\ CharAt(s, 1) \in C THEN DropWhile(DropFirst(s, 1), C) ELSE s

\* every maximal run of characters of C replaced by rep
RECURSIVE ReplaceRuns(_, _, _)
ReplaceRuns(s, C, rep) ==
    IF Len(s) = 0 THEN ""
    ELSE IF CharAt(s, 1) \in C THEN rep \o ReplaceRuns(DropWhile(s, C), C, rep)
    ELSE CharAt(s, 1) \o ReplaceRuns(DropFirst(s, 1), C, rep)

\* .replace(/[^a-zA-Z0-9\-_.]/g, "-")
RECURSIVE ReplaceUnsafe(_)
ReplaceUnsafe(s) ==
    IF Len(s) = 0 THEN ""
    ELSE (IF CharAt(s, 1) \in SafeChars THEN CharAt(s, 1) ELSE "-")
             \o ReplaceUnsafe(DropFirst(s, 1))

\* .replace(/^-|-$/g, "")
StripDashes(s) ==
    LET a == IF StartsWith(s, "-") THEN DropFirst(s, 1) ELSE s
    IN  IF EndsWith(a, "-") THEN SubSeq(a, 1, Len(a) - 1) ELSE a

safeName(component) ==
    LET slug == StripDashes(ReplaceRuns(
                    ReplaceUnsafe(ReplaceRuns(Trim(component), {" ", "\t"}, "-")),
                    {"-"}, "-"))
    IN  IF slug = "" THEN "unknown" ELSE slug

ComponentsDir == "src/data/components/"

SrcIndexPath == "src/data/components/index.json"

BuildIndexPath == "build/data/components/index.json"

componentFileRel(json) == ComponentsDir \o safeName(json.component) \o ".json"

EmptyFs == [p \in {} |-> None]

\* fs.writeFileSync(path, content)
WriteFile(fs, path, content) ==
    [p \in (DOMAIN fs) \cup {path} |-> IF p = path THEN content ELSE fs[p]]

MissingIndex == [state |-> "missing", components |-> <<>>]

CorruptIndex == [state |-> "corrupt", components |-> <<>>]

OkIndex(components) == [state |-> "ok", components |-> components]

\* indexData after the read: a missing or unparsable index.json starts empty
readIndexComponents(idx) == IF idx.state = "ok" THEN idx.components ELSE <<>>

\* as indexHas, but the names are compared as written
indexHasCaseSensitive(components, name) ==
    \E i \in 1..Len(components) : components[i].name = name

\* indexData.components.some(e => (e.name || "").toLowerCase() === name.toLowerCase())
indexHas(components, name) ==
    \E i \in 1..Len(components) : ToLower(components[i].name) = ToLower(name)

\* the component file written by processComponent
processComponentFiles(fs, json) == WriteFile(fs, componentFileRel(json), json)

\* as processComponentIndex, but an existing entry's file is updated
processComponentIndexOverwrite(idx, json) ==
    LET cs == readIndexComponents(idx)
    IN  IF indexHas(cs, json.component)
        THEN OkIndex([i \in 1..Len(cs) |->
                 IF ToLower(cs[i].name) = ToLower(json.component)
                 THEN [name |-> cs[i].name, file |-> componentFileRel(json)]
                 ELSE cs[i]])
        ELSE OkIndex(Append(cs, [name |-> json.component, file |-> componentFileRel(json)]))

\* src/data/components/index.json after processComponent
processComponentIndex(idx, json) ==
    IF indexHas(readIndexComponents(idx), json.component) THEN idx
    ELSE OkIndex(Append(readIndexComponents(idx),
                        [name |-> json.component, file |-> componentFileRel(json)]))

IndexCandidates == <<BuildIndexPath, SrcIndexPath>>

\* entry.file.replace(/^src\//, "build/")
BuildPath(file) ==
    IF StartsWith(file, "src/") THEN "build/" \o DropFirst(file, 4) ELSE file

Failure(message) == [ok |-> FALSE, error |-> message, data |-> None]

Success(data) == [ok |-> TRUE, error |-> "", data |-> Some(data)]

\* as findEntry, but the names are compared as written
findEntryCaseSensitive(components, componentName) ==
    LET hit == {i \in 1..Len(components) : components[i].name = componentName}
    IN  IF hit = {} THEN None ELSE Some(components[Min(hit)])

\* Array.prototype.find on the entries, by lower-cased name
findEntry(components, componentName) ==
    LET hit == {i \in 1..Len(components) :
                   ToLower(components[i].name) = ToLower(componentName)}
    IN  IF hit = {} THEN None ELSE Some(components[Min(hit)])

loadComponentData(componentName, fs, idx) ==
    LET found == {i \in 1..Len(IndexCandidates) : idx[IndexCandidates[i]].state # "missing"}
    IN  IF found = {}
        THEN Failure("Index file not found. Candidates: "
                         \o BuildIndexPath \o ", " \o SrcIndexPath)
        ELSE LET indexJson == idx[IndexCandidates[Min(found)]]
             IN  IF indexJson.state = "corrupt"
                 THEN Failure("SyntaxError: Unexpected token in JSON")
                 ELSE LET entry == findEntry(indexJson.components, componentName)
                      IN  IF entry = None
                          THEN Failure("Component '" \o componentName \o "' not found")
                          ELSE LET fileCandidates == <<BuildPath(entry[1].file), entry[1].file>>
                                   abs == {i \in 1..2 : fileCandidates[i] \in DOMAIN fs}
                               IN  IF abs = {}
                                   THEN Failure("Component file not found for '"
                                            \o componentName \o "'. Candidates: "
                                            \o fileCandidates[1] \o ", " \o fileCandidates[2])
                                   ELSE Success(fs[fileCandidates[Min(abs)]])

(***************************************************************************)
(* Inputs                                                                  *)
(***************************************************************************)
RECURSIVE SeqsUpTo(_, _)
SeqsUpTo(S, n) ==
    IF n = 0 THEN {<<>>}
    ELSE LET P == SeqsUpTo(S, n - 1) IN P \cup {Append(q, x) : q \in P, x \in S}

RECURSIVE StringsUpTo(_, _)
StringsUpTo(chars, n) ==
    IF n = 0 THEN {""}
    ELSE LET P == StringsUpTo(chars, n - 1) IN P \cup {q \o c : q \in P, c \in chars}

RECURSIVE Flatten(_)
Flatten(blocks) == IF Len(blocks) = 0 THEN <<>> ELSE blocks[1] \o Flatten(Tail(blocks))

MaxSectionLines == 3

MaxTableLines == 4

MaxRowLen == 4

MaxBlocks == 3

\* lines of the documents extractSection is applied to
SectionPool ==
    {"### A Props", "  ### a props ", "### A Propsy", "### C Events", "## B", "text"}

SectionLabels == {"A Props", "C events", "D Props"}

SectionDocs == SeqsUpTo(SectionPool, MaxSectionLines)

\* lines of the sections extractFirstTable is applied to
TablePool ==
    {"| n | t |", "| -- | -- |", "| --x | y |", "n | t  ", "### H | x", "text", ""}

TableDocs == SeqsUpTo(TablePool, MaxTableLines)

RowChars == {"|", "\\", " ", "a", "b"}

Rows == StringsUpTo(RowChars, MaxRowLen)

Separator == "| -- | -- |"

PropsHeader == "| mingcheng | bichuan |"

EventsHeader == "| mingcheng | canshu |"

MethodsHeader == "| mingcheng | fanhuizhi |"

\* blocks of lines the dispatcher's documents are made of
DocBlocks ==
    {<<"### Tab Props", PropsHeader, Separator, "| size | Y |">>,
     <<"### tab Props", PropsHeader, Separator, "| color | N |">>,
     <<"  ### Tag Props (beta)", PropsHeader, Separator, "| max | N |">>,
     <<"### Tab Events", EventsHeader, Separator, "| click | e |">>,
     <<"### TabInstanceFunctions zujianshilifangfa", MethodsHeader, Separator, "| focus | void |">>,
     <<"### TagInstanceFunctions zujianshilifangfa", "none">>,
     <<"## Guide">>}

Docs == {Flatten(b) : b \in SeqsUpTo(DocBlocks, MaxBlocks)}

(***************************************************************************)
(* The text functions, each applied to one input                           *)
(***************************************************************************)
DocIdle == dDoc = <<>> /\ dComps = None

RunIdle ==
    /\ pc = "idle" /\ mode = "" /\ multi = FALSE /\ comps = <<>> /\ handed = 0
    /\ persisted = 0 /\ allComponents = <<>> /\ stdout = None /\ docsRead = 0
    /\ files = <<>> /\ indexFile = <<>> /\ lookupName = "" /\ lookupResult = None

TextIdle == tKind = "" /\ tLines = <<>> /\ tLabel = "" /\ tRow = "" /\ tResult = None

InitText ==
    /\ DocIdle
    /\ RunIdle
    /\ tResult = None
    /\ \/ tKind = "section" /\ tLines \in SectionDocs /\ tLabel \in SectionLabels /\ tRow = ""
       \/ tKind = "table" /\ tLines \in TableDocs /\ tLabel = "" /\ tRow = ""
       \/ tKind = "row" /\ tLines = <<>> /\ tLabel = "" /\ tRow \in Rows

CallExtractSection ==
    /\ tKind = "section"
    /\ tResult = None
    /\ tResult' = Some(extractSection(tLines, tLabel))
    /\ UNCHANGED <<tKind, tLines, tLabel, tRow, docVars, runVars, storeVars, lookupVars>>

CallExtractFirstTable ==
    /\ tKind = "table"
    /\ tResult = None
    /\ tResult' = Some(extractFirstTable(tLines))
    /\ UNCHANGED <<tKind, tLines, tLabel, tRow, docVars, runVars, storeVars, lookupVars>>

CallSplitRow ==
    /\ tKind = "row"
    /\ tResult = None
    /\ tResult' = Some(splitRowPreservingEscapedPipes(tRow))
    /\ UNCHANGED <<tKind, tLines, tLabel, tRow, docVars, runVars, storeVars, lookupVars>>

NextText == CallExtractSection \/ CallExtractFirstTable \/ CallSplitRow

SpecText == InitText /\ [][NextText]_vars

(***************************************************************************)
(* The dispatcher applied to one document                                  *)
(***************************************************************************)
InitDoc == TextIdle /\ RunIdle /\ dDoc \in Docs /\ dComps = None

CallDocumentComponents ==
    /\ dComps = None
    /\ dComps' = Some(documentComponents(dDoc))
    /\ UNCHANGED <<textVars, dDoc, runVars, storeVars, lookupVars>>

NextDoc == CallDocumentComponents

SpecDoc == InitDoc /\ [][NextDoc]_vars

(***************************************************************************)
(* main, processComponent and loadComponentData over one store             *)
(***************************************************************************)
MaxDocs == 2

\* blocks of lines the documents given to main are made of
RunBlocks ==
    {<<"### Tab Props", PropsHeader, Separator, "| size | Y |">>,
     <<"### tab Props">>,
     <<"### Tab+ Props">>,
     <<"intro">>}

\* the documents given to main: one block, or two blocks one after the other
RunDocs == RunBlocks \cup {a \o b : a \in RunBlocks, b \in RunBlocks}

\* what main builds from each document before it persists anything: the
\* ComponentDocs and whether the document counts as multi-component
RunInputs ==
    {[comps |-> documentComponents(d), multi |-> IsMultiComponent(d)] : d \in RunDocs}

LookupNames == {"TAB", "Tag", "zz"}

\* a build/ copy of an older store: Tab with its file, Tag without one
BuildTab == [component |-> "Tab", props |-> <<>>, events |-> <<>>, methods |-> None]

BuildSnapshotIndex ==
    OkIndex(<<[name |-> "Tab", file |-> "src/data/components/Tab.json"],
              [name |-> "Tag", file |-> "src/data/components/Tag.json"]>>)

BuildSnapshotFiles == WriteFile(EmptyFs, "build/data/components/Tab.json", BuildTab)

Indexes(build, src) ==
    [p \in {BuildIndexPath, SrcIndexPath} |-> IF p = BuildIndexPath THEN build ELSE src]

Init ==
    /\ TextIdle
    /\ DocIdle
    /\ pc = "idle" /\ mode = "" /\ multi = FALSE /\ comps = <<>> /\ handed = 0
    /\ persisted = 0 /\ allComponents = <<>> /\ stdout = None /\ docsRead = 0
    /\ lookupName = "" /\ lookupResult = None
    /\ \/ files = EmptyFs /\ indexFile = Indexes(MissingIndex, MissingIndex)
       \/ files = EmptyFs /\ indexFile = Indexes(MissingIndex, CorruptIndex)
       \/ files = BuildSnapshotFiles /\ indexFile = Indexes(BuildSnapshotIndex, MissingIndex)

Quiescent == pc \in {"idle", "done", "failed"}

ArrayOutput(docs) == [shape |-> "array", docs |-> docs]

ObjectOutput(doc) == [shape |-> "object", docs |-> <<doc>>]

\* one document read and its ComponentDocs built, none persisted yet
BeginDocument(doc) ==
    /\ docsRead < MaxDocs
    /\ docsRead' = docsRead + 1
    /\ comps' = doc.comps
    /\ multi' = doc.multi
    /\ handed' = 0
    /\ persisted' = 0
    /\ pc' = "persist"

\* main with no argument or "-": the document comes from stdin
MainStdin ==
    /\ Quiescent
    /\ \E doc \in RunInputs : BeginDocument(doc)
    /\ mode' = "stdin"
    /\ allComponents' = <<>>
    /\ stdout' = None
    /\ lookupName' = "" /\ lookupResult' = None
    /\ UNCHANGED <<textVars, docVars, storeVars>>

\* main with the path of a file: processMarkdownFile(absolute)
MainFile ==
    /\ Quiescent
    /\ \E doc \in RunInputs : BeginDocument(doc)
    /\ mode' = "file"
    /\ allComponents' = <<>>
    /\ stdout' = None
    /\ lookupName' = "" /\ lookupResult' = None
    /\ UNCHANGED <<textVars, docVars, storeVars>>

\* main with the path of a directory: findMarkdownFiles, then one file at a time
MainDirectory ==
    /\ Quiescent
    /\ docsRead < MaxDocs
    /\ mode' = "dir"
    /\ pc' = "nextfile"
    /\ comps' = <<>> /\ multi' = FALSE /\ handed' = 0 /\ persisted' = 0
    /\ allComponents' = <<>>
    /\ stdout' = None
    /\ lookupName' = "" /\ lookupResult' = None
    /\ UNCHANGED <<textVars, docVars, storeVars, docsRead>>

\* the next file of the directory: processMarkdownFile(filePath)
ProcessNextFile ==
    /\ pc = "nextfile"
    /\ \E doc \in RunInputs : BeginDocument(doc)
    /\ UNCHANGED <<textVars, docVars, storeVars, lookupVars, mode, allComponents, stdout>>

\* no file is left: allComponents is written
FinishDirectory ==
    /\ pc = "nextfile"
    /\ stdout' = Some(ArrayOutput(allComponents))
    /\ pc' = "done"
    /\ UNCHANGED <<textVars, docVars, storeVars, lookupVars, mode, multi, comps, handed,
                   persisted, allComponents, docsRead>>

\* what follows the last processComponent of a document
DocumentDone ==
    /\ mode = "stdin" =>
           /\ stdout' = Some(IF multi THEN ArrayOutput(comps) ELSE ObjectOutput(comps[1]))
           /\ pc' = "done"
           /\ UNCHANGED allComponents
    /\ mode = "file" =>
           /\ stdout' = Some(ArrayOutput(comps))
           /\ pc' = "done"
           /\ UNCHANGED allComponents
    /\ mode = "dir" =>
           /\ allComponents' = allComponents \o comps
           /\ pc' = "nextfile"
           /\ UNCHANGED stdout

\* processComponent(comps[handed + 1]) returns
PersistReturns ==
    /\ pc = "persist"
    /\ files' = processComponentFiles(files, comps[handed + 1])
    /\ indexFile' = [indexFile EXCEPT
                         ![SrcIndexPath] = processComponentIndex(@, comps[handed + 1])]
    /\ handed' = handed + 1
    /\ persisted' = persisted + 1
    /\ IF handed + 1 < Len(comps)
       THEN UNCHANGED <<pc, stdout, allComponents>>
       ELSE DocumentDone
    /\ UNCHANGED <<textVars, docVars, lookupVars, mode, multi, comps, docsRead>>

\* what follows a processComponent that throws: main().catch exits with nothing
\* written; directory mode's try/catch drops the file and goes on
PersistFailed ==
    /\ handed' = handed + 1
    /\ pc' = IF mode = "dir" THEN "nextfile" ELSE "failed"
    /\ UNCHANGED <<textVars, docVars, lookupVars, mode, multi, comps, persisted,
                   allComponents, stdout, docsRead>>

\* processComponent(comps[handed + 1]) throws before the component file is written
\* (mkdirSync or the first writeFileSync fails)
PersistThrowsAtFile ==
    /\ pc = "persist"
    /\ UNCHANGED storeVars
    /\ PersistFailed

\* processComponent(comps[handed + 1]) throws when it writes index.json
PersistThrowsAtIndex ==
    /\ pc = "persist"
    /\ ~indexHas(readIndexComponents(indexFile[SrcIndexPath]), comps[handed + 1].component)
    /\ files' = processComponentFiles(files, comps[handed + 1])
    /\ UNCHANGED indexFile
    /\ PersistFailed

\* a consumer looks a component up between runs
Lookup ==
    /\ Quiescent
    /\ \E name \in LookupNames :
           /\ lookupName' = name
           /\ lookupResult' = Some(loadComponentData(name, files, indexFile))
    /\ UNCHANGED <<textVars, docVars, runVars, storeVars>>

Next ==
    \/ MainStdin
    \/ MainFile
    \/ MainDirectory
    \/ ProcessNextFile
    \/ FinishDirectory
    \/ PersistReturns
    \/ PersistThrowsAtFile
    \/ PersistThrowsAtIndex
    \/ Lookup

Spec == Init /\ [][Next]_vars

(***************************************************************************)
(* The same program on an initially empty store, every processComponent     *)
(* call returning                                                           *)
(***************************************************************************)
InitPersist ==
    /\ TextIdle
    /\ DocIdle
    /\ pc = "idle" /\ mode = "" /\ multi = FALSE /\ comps = <<>> /\ handed = 0
    /\ persisted = 0 /\ allComponents = <<>> /\ stdout = None /\ docsRead = 0
    /\ lookupName = "" /\ lookupResult = None
    /\ files = EmptyFs
    /\ indexFile = Indexes(MissingIndex, MissingIndex)

NextPersist ==
    \/ MainStdin
    \/ MainFile
    \/ MainDirectory
    \/ ProcessNextFile
    \/ FinishDirectory
    \/ PersistReturns
    \/ Lookup

SpecPersist == InitPersist /\ [][NextPersist]_vars

(***************************************************************************)
(* Claims about the text functions (SpecText)                              *)
(***************************************************************************)
\* the k-th smallest element of a set of line numbers
KthOf(S, k) == CHOOSE i \in S : Cardinality({j \in S : j < i}) = k - 1

ClaimHeadingMatches(l, label) ==
    /\ StartsWith(Trim(l), "### ")
    /\ ToLower(Trim(DropFirst(Trim(l), 4))) = ToLower(label)

ClaimSectionEnds(l) == \E m \in {"### ", "## ", "# "} : StartsWith(Trim(l), m)

ClaimedSection(lines, label) ==
    LET hits == {i \in 1..Len(lines) : ClaimHeadingMatches(lines[i], label)}
    IN  IF hits = {} THEN <<>>
        ELSE LET first == Min(hits)
                 ends == {i \in (first + 1)..Len(lines) : ClaimSectionEnds(lines[i])}
                 last == IF ends = {} THEN Len(lines) ELSE Min(ends) - 1
             IN  SubSeq(lines, first + 1, last)

\* C6: extractSection(lines, label) returns exactly the lines strictly between the
\* first line whose heading text equals the label, letter case ignored, and the next
\* later line that starts with a heading marker of the same or a coarser level
\* (###, ## or #), or the end of the document; and the empty sequence when no
\* heading matches.
C6_Claim ==
    (tKind = "section" /\ tResult # None) => tResult[1] = ClaimedSection(tLines, tLabel)

IsDashRun(c) == Len(c) >= 2 /\ \A i \in 1..Len(c) : CharAt(c, i) = "-"

ClaimSeparatorLine(l) ==
    /\ Includes(l, "|")
    /\ LET cells == Split(StripTrailingPipe(StripLeadingPipe(Trim(l))), "|")
       IN  \A i \in 1..Len(cells) : IsDashRun(Trim(cells[i]))

ClaimHeaderCandidate(l) == Includes(l, "|") /\ ~StartsWith(Trim(l), "#")

ClaimedTable(section) ==
    LET lines == [i \in 1..Len(section) |-> TrimEnd(section[i])]
        starts == {i \in 1..(Len(lines) - 1) :
                      ClaimHeaderCandidate(lines[i]) /\ ClaimSeparatorLine(lines[i + 1])}
    IN  IF starts = {} THEN <<>>
        ELSE LET start == Min(starts)
                 ends == {i \in (start + 2)..Len(lines) :
                             Trim(lines[i]) = "" \/ ~Includes(lines[i], "|")}
                 last == IF ends = {} THEN Len(lines) ELSE Min(ends) - 1
             IN  SubSeq(lines, start, last)

\* C7: extractFirstTable(section) is empty or one contiguous run of the section's
\* lines: from the first line that holds a pipe, is no heading line and is followed
\* by a separator line (every column a run of at least 2 dashes between pipes), up
\* to, not including, the first blank line or first line without a pipe; a
\* candidate whose next line is no separator line never starts a table.
C7_Claim ==
    (tKind = "table" /\ tResult # None) => tResult[1] = ClaimedTable(tLines)

UnescapedPipes(row) ==
    {i \in 1..Len(row) :
        CharAt(row, i) = "|" /\ ~(i > 1 /\ CharAt(row, i - 1) = "\\")}

\* a cell's text with every backslash that stands directly before a pipe dropped
RECURSIVE Unescape(_)
Unescape(s) ==
    IF Len(s) = 0 THEN ""
    ELSE IF Len(s) >= 2 /\ SubSeq(s, 1, 2) = "\\|" THEN "|" \o Unescape(DropFirst(s, 2))
    ELSE CharAt(s, 1) \o Unescape(DropFirst(s, 1))

ClaimedCells(row) ==
    LET U == UnescapedPipes(row)
        lo == IF 1 \in U THEN 2 ELSE 1
        hi == IF Len(row) \in U /\ Len(row) >= lo THEN Len(row) - 1 ELSE Len(row)
        inner == {i \in U : lo <= i /\ i <= hi}
        n == Cardinality(inner)
        From(k) == IF k = 1 THEN lo ELSE KthOf(inner, k - 1) + 1
        To(k) == IF k = n + 1 THEN hi ELSE KthOf(inner, k) - 1
    IN  [k \in 1..(n + 1) |-> Unescape(Trim(SubSeq(row, From(k), To(k))))]

\* C10: splitRowPreservingEscapedPipes(row) returns the trimmed segments between the
\* unescaped pipes, one leading and one trailing unescaped pipe dropped: the number
\* of cells is the number of remaining unescaped pipes plus one, and every escaped
\* pipe comes back as one literal pipe inside its own cell.
C10_EscapedPipeStaysInCell ==
    (tKind = "row" /\ tResult # None) => tResult[1] = ClaimedCells(tRow)

C10_Witness ==
    /\ tKind = "row"
    /\ tRow = "a\\|b"
    /\ tResult = Some(<<"a|b">>)

(***************************************************************************)
(* Claims about the dispatcher (SpecDoc)                                   *)
(***************************************************************************)
ClaimIsPropsHeading(l) ==
    LET t == ToLower(Trim(l))
    IN  /\ Len(t) >= 4
        /\ SubSeq(t, 1, 4) = "### "
        /\ \E i \in 1..(Len(t) - 4) : SubSeq(t, i, i + 4) = "props"

PropsHeadingIndexes(doc) == {i \in 1..Len(doc) : ClaimIsPropsHeading(doc[i])}

\* the heading's text after the marker, cut before the first white space that is
\* followed by "props"
ClaimedName(l) ==
    LET body == TrimStart(DropFirst(Trim(l), 3))
        cuts == {i \in 1..Len(body) :
                    /\ IsSpace(CharAt(body, i))
                    /\ StartsWith(ToLower(TrimStart(SubSeq(body, i, Len(body)))), "props")}
    IN  IF cuts = {} THEN Trim(body) ELSE Trim(SubSeq(body, 1, Min(cuts) - 1))

ClaimedNames(doc) ==
    LET H == PropsHeadingIndexes(doc)
    IN  IF H = {} THEN <<"Unknown">>
        ELSE [k \in 1..Cardinality(H) |-> ClaimedName(doc[KthOf(H, k)])]

\* C4: the component names of the returned ComponentDocs are "Unknown" alone when no
\* line is a Props heading, and otherwise the names derived from the Props headings
\* in document order, one per heading and with no deduplication.
C4_NamesFollowHeadings ==
    dComps # None =>
        [k \in 1..Len(dComps[1]) |-> dComps[1][k].component] = ClaimedNames(dDoc)

C4_Witness ==
    /\ dComps # None
    /\ Len(dComps[1]) = 2
    /\ dComps[1][1].component = dComps[1][2].component

\* the lines after line h up to the next ### heading
SectionAt(doc, h) ==
    LET ends == {i \in (h + 1)..Len(doc) : SectionStops(doc[i])}
    IN  SubSeq(doc, h + 1, IF ends = {} THEN Len(doc) ELSE Min(ends) - 1)

\* the section under the first heading that names exactly this component
OwnSection(doc, label) ==
    LET hits == {i \in 1..Len(doc) : StartsWith(Trim(doc[i]), "### " \o label)}
    IN  IF hits = {} THEN <<>> ELSE SectionAt(doc, Min(hits))

\* C5: in a multi-component document the props of the k-th ComponentDoc come from
\* the table in the section that starts at the k-th Props heading itself, and its
\* events and methods from the sections headed with that component's own name.
C5_Claim ==
    (dComps # None /\ Cardinality(PropsHeadingIndexes(dDoc)) > 1) =>
        \A k \in 1..Len(dComps[1]) :
            LET c == dComps[1][k]
                methodsTable == extractFirstTable(OwnSection(dDoc, c.component \o MethodsMarker))
            IN  /\ c.props = parsePropsTable(extractFirstTable(
                                 SectionAt(dDoc, KthOf(PropsHeadingIndexes(dDoc), k))))
                /\ c.events = parseEventsTable(extractFirstTable(
                                 OwnSection(dDoc, c.component \o " Events")))
                /\ c.methods = IF Len(methodsTable) > 0
                               THEN Some(parseMethodsTable(methodsTable)) ELSE None

\* a table (a header candidate followed by a separator row) stands in the section
\* under the first heading that matches the component's methods label
MethodsTableLocated(doc, component) ==
    LET label == ToLower("### " \o component \o MethodsMarker)
        hits == {i \in 1..Len(doc) : StartsWith(ToLower(Trim(doc[i])), label)}
    IN  /\ hits # {}
        /\ LET sec == SectionAt(doc, Min(hits))
           IN  \E j \in 1..(Len(sec) - 1) :
                   /\ HeaderCandidate(Trim(sec[j]))
                   /\ SeparatorRegex(TrimEnd(sec[j + 1]))

\* C9: a component without a methods section does not stop the run: every Props
\* heading still yields its ComponentDoc, with props and events, and methods is
\* present exactly when a methods table was located for that component.
C9_MethodsOptional ==
    dComps # None =>
        /\ Len(dComps[1]) = Len(ClaimedNames(dDoc))
        /\ \A k \in 1..Len(dComps[1]) :
               /\ (dComps[1][k].methods # None)
                      <=> MethodsTableLocated(dDoc, dComps[1][k].component)
               /\ DOMAIN dComps[1][k] = {"component", "props", "events", "methods"}

\* the first component has props but no methods; a later one is still processed
\* and has its methods
C9_Witness ==
    /\ dComps # None
    /\ Len(dComps[1]) = 2
    /\ dComps[1][1].methods = None
    /\ Len(dComps[1][1].props) > 0
    /\ dComps[1][2].methods # None

(***************************************************************************)
(* Claims about persistence, main and lookup (Spec)                        *)
(***************************************************************************)
SrcIndex == indexFile[SrcIndexPath]

\* C1: when processComponent runs for a component whose name equals, letter case
\* ignored, the name of an existing index entry, the index is left as it was: the
\* entry keeps its name and its file and no entry is added, even when the run
\* computes another file path.
C1_IndexEntryKept ==
    [][(/\ pc = "persist"
        /\ handed' = handed + 1
        /\ indexHas(readIndexComponents(SrcIndex), comps[handed + 1].component))
           => indexFile'[SrcIndexPath] = SrcIndex]_vars

\* "tab" was persisted to tab.json after "Tab" had been indexed with Tab.json
C1_Witness ==
    /\ handed > 0
    /\ persisted = handed
    /\ comps[handed].component = "tab"
    /\ "src/data/components/tab.json" \in DOMAIN files
    /\ \E i \in 1..Len(SrcIndex.components) :
           SrcIndex.components[i] = [name |-> "Tab", file |-> "src/data/components/Tab.json"]

\* what the run has written for the components of the current document
Produced ==
    IF mode = "dir" THEN allComponents
    ELSE IF stdout = None THEN <<>> ELSE stdout[1].docs

\* C2: when persisting one component of a document fails, every later component of
\* that document is still handed to persistence and is still part of the output.
C2_Claim ==
    (pc \in {"done", "failed", "nextfile"} /\ comps # <<>>) =>
        /\ handed = Len(comps)
        /\ \A j \in (persisted + 2)..Len(comps) :
               \E n \in 1..Len(Produced) : Produced[n] = comps[j]

\* C3: every single-component input, from stdin or from a file path, gives one
\* ComponentDoc object; every multi-component input and directory mode give an array.
C3_Claim ==
    pc = "done" =>
        stdout[1].shape = IF mode \in {"stdin", "file"} /\ ~multi THEN "object" ELSE "array"

IsIndexNotFound(r) == ~r.ok /\ StartsWith(r.error, "Index file not found")

IsComponentNotFound(r) ==
    ~r.ok /\ StartsWith(r.error, "Component '") /\ EndsWith(r.error, "' not found")

IsFileNotFound(r) == ~r.ok /\ StartsWith(r.error, "Component file not found")

\* C8: loadComponentData resolves the name against the index with letter case
\* ignored and fails with three errors that can be told apart, in this order: no
\* index file exists; the index has no entry with that name; none of the entry's
\* candidate files exists.  Otherwise it returns the content of the entry's file.
C8_LookupErrors ==
    lookupResult # None =>
        LET r == lookupResult[1]
            build == indexFile[BuildIndexPath]
            noIndex == build.state = "missing" /\ SrcIndex.state = "missing"
            chosen == IF build.state # "missing" THEN build ELSE SrcIndex
            hits == {i \in 1..Len(chosen.components) :
                        ToLower(chosen.components[i].name) = ToLower(lookupName)}
            file == chosen.components[Min(hits)].file
            inBuild == BuildPath(file) \in DOMAIN files
            present == inBuild \/ file \in DOMAIN files
        IN  /\ Cardinality({t \in {"index", "component", "file"} :
                   \/ t = "index" /\ IsIndexNotFound(r)
                   \/ t = "component" /\ IsComponentNotFound(r)
                   \/ t = "file" /\ IsFileNotFound(r)}) <= 1
            /\ noIndex => IsIndexNotFound(r)
            /\ (~noIndex /\ chosen.state = "ok") =>
                   /\ hits = {} => IsComponentNotFound(r)
                   /\ (hits # {} /\ ~present) => IsFileNotFound(r)
                   /\ (hits # {} /\ present) =>
                          /\ r.ok
                          /\ r.data = Some(files[IF inBuild THEN BuildPath(file) ELSE file])

\* "TAB" resolved through the src index to the record persisted as "Tab"
C8_Witness ==
    /\ lookupResult # None
    /\ lookupName = "TAB"
    /\ indexFile[BuildIndexPath].state = "missing"
    /\ lookupResult[1].ok
    /\ lookupResult[1].data[1].component = "Tab"

\* the entries of an index whose name equals the given one, letter case ignored
EntriesNamed(components, name) ==
    {i \in 1..Len(components) : ToLower(components[i].name) = ToLower(name)}

\* C11: starting from a missing, corrupt or duplicate-free index, after any sequence
\* of processComponent calls the index never holds two entries whose names are equal
\* with letter case ignored.
C11_IndexNamesUnique ==
    \A i \in 1..Len(SrcIndex.components) :
        EntriesNamed(SrcIndex.components, SrcIndex.components[i].name) = {i}

\* "tab" was persisted after "Tab" and one more name were indexed: the index still
\* holds one entry for the name, the one written first
C11_Witness ==
    /\ SrcIndex.state = "ok"
    /\ Len(SrcIndex.components) >= 2
    /\ persisted = handed
    /\ handed > 0
    /\ comps[handed].component = "tab"
    /\ EntriesNamed(SrcIndex.components, "tab") # {}
    /\ SrcIndex.components[Min(EntriesNamed(SrcIndex.components, "tab"))].name = "Tab"

\* the components of the current document persisted so far whose name equals the
\* given one, letter case ignored
PersistedNamed(name) ==
    {j \in 1..persisted : ToLower(comps[j].component) = ToLower(name)}

Max(S) == CHOOSE i \in S : \A j \in S : j <= i

\* C12: after any sequence of successful processComponent calls on an initially
\* empty store, every index entry points to a file that exists and holds the most
\* recently persisted ComponentDoc of the component with the entry's name, letter
\* case ignored; a lookup through the index never returns another component's record.
C12_Claim ==
    /\ \A i \in 1..Len(SrcIndex.components) :
           LET e == SrcIndex.components[i]
               mine == PersistedNamed(e.name)
           IN  /\ e.file \in DOMAIN files
               /\ ToLower(files[e.file].component) = ToLower(e.name)
               /\ mine # {} => files[e.file] = comps[Max(mine)]
    /\ (lookupResult # None /\ lookupResult[1].ok) =>
           ToLower(lookupResult[1].data[1].component) = ToLower(lookupName)

====
